---- MODULE Spec2Model ----
(***************************************************************************)
(* Model of udapi.block.write.corefhtml.CorefHtml (the span walk of        *)
(* process_tree, driven by process_document) and of udapi.core.root.Root   *)
(* (ordering of the nodes of a tree).                                      *)
(*                                                                         *)
(* The printed HTML is modelled as a sequence of tokens, one per print():  *)
(* "p", "open" (a <span ...> with its classes and title), "visit" (the     *)
(* node's form with its <b>/<i> decoration), "close" (</span>), "space"    *)
(* and "endp".  Entity types and mention.other are copied to the output    *)
(* unchanged by the code and are left out of the tokens.                   *)
(***************************************************************************)
EXTENDS Integers, Sequences, FiniteSets, TLC

\* ------------------------------------------------------------------ bounds
NumNodes == 4
MaxMentions == 3
MaxMentionsTwice == 2
NumRootNodes == 3
MaxOrd == 3

\* ----------------------------------------------------------------- helpers
Range(s) == {s[k] : k \in 1..Len(s)}

MinOf(S) == CHOOSE x \in S : \A y \in S : x <= y

MaxOf(S) == CHOOSE x \in S : \A y \in S : y <= x

Interval(a, b) == [k \in 1..(b - a + 1) |-> a + k - 1]

Last(s) == s[Len(s)]

Front(s) == SubSeq(s, 1, Len(s) - 1)

\* all the orders in which a finite set can be enumerated
Enumerations(S) ==
    {f \in [1..Cardinality(S) -> S] : \A a, b \in 1..Cardinality(S) : a # b => f[a] # f[b]}

RECURSIVE Flatten(_)
Flatten(ss) == IF ss = <<>> THEN <<>> ELSE Head(ss) \o Flatten(Tail(ss))

\* ---------------------------------------------------------------- document
VARIABLES
    trees,        \* doc.trees: per tree its descendants_and_empty (node ids in order)
    emptyNodes,   \* the nodes with node.is_empty()
    noSpace,      \* the nodes with node.no_space_after
    ment,         \* mention id -> [words: set of nodes, head: node]
    entities,     \* doc.coref_entities: per entity (eid = index) its list e.mentions
    pc,           \* position in process_document / process_tree
    pass,         \* 1 during the first call of process_document, 2 during the second
    mention_ids,  \* process_document's mention_ids
    t,            \* index of the tree being processed
    i,            \* index of the current node in trees[t]
    subspans,     \* process_tree's subspans (sorted descending, popped from the end)
    opened,       \* process_tree's stack of open subspans
    out,          \* per tree the tokens printed so far in this call
    prev,         \* per tree the tokens printed by the first call
    edited,       \* TRUE once the document was edited between the two calls
    ord,          \* Root: node -> node.ord; node 0 is the root
    attached,     \* Root: the nodes below the root (root.unordered_descendants())
    descendants,  \* Root: root._descendants
    before,       \* Root: the ords before the last call of _update_ordering
    calls,        \* Root: calls of _update_ordering since the last change (at most 2)
    text,         \* Root: root.text ("None" stands for None)
    comment,      \* Root: root.comment, the strings joined by "\n " (<<>> stands for None)
    zone,         \* Root: root._zone
    bundle,       \* Root: root._bundle
    last          \* Root: the last call on the root, what it returned, raised, logged

walkVars == <<trees, emptyNodes, noSpace, ment, entities, pc, pass, mention_ids, t, i,
              subspans, opened, out, prev, edited>>

orderVars == <<ord, attached, descendants, before, calls>>

sentinelVars == <<text, comment, zone, bundle, last>>

rootVars == <<orderVars, sentinelVars>>

vars == <<walkVars, rootVars>>

docVars == <<trees, emptyNodes, noSpace, ment>>

\* the node ids of the first tree and of the second (one-node) tree
Tree1 == Interval(1, NumNodes)

Tree2 == <<NumNodes + 1>>

\* the ways k mentions, numbered in creation order, are grouped into entities
RECURSIVE Compositions(_, _)
Compositions(from, to) ==
    IF from > to THEN {<<>>}
    ELSE UNION {{<<Interval(from, cut)>> \o rest : rest \in Compositions(cut + 1, to)}
                : cut \in from..to}

\* a mention lies in one tree; its head is one of its words (the first or the last)
MentionChoices(headLast) ==
    {[words |-> w, head |-> IF headLast THEN MaxOf(w) ELSE MinOf(w)]
        : w \in ((SUBSET Range(Tree1)) \ {{}}) \cup {Range(Tree2)}}

DocMentions == Range(Flatten(entities))

EntityOf(m) == CHOOSE e \in 1..Len(entities) : m \in Range(entities[e])

\* node.coref_mentions
CorefMentions(n) == {m \in DocMentions : n \in ment[m].words}

\* lines 66-70: the mentions of the nodes of a tree
TreeMentions(tr) == UNION {CorefMentions(n) : n \in Range(trees[tr])}

\* mention._subspans(): the maximal runs of consecutive nodes, in order
RECURSIVE Runs(_)
Runs(S) ==
    IF S = {} THEN <<>>
    ELSE LET a == MinOf(S)
             b == MaxOf({c \in S : \A d \in a..c : d \in S})
         IN  <<Interval(a, b)>> \o Runs(S \ (a..b))

Subspans(m) ==
    LET runs == Runs(ment[m].words)
    IN  [k \in 1..Len(runs) |-> [mention |-> m, words |-> runs[k], subspan_id |-> k]]

\* CorefMentionSubspan.__lt__: first node ascending, then last node descending
SubspanLt(a, b) ==
    \/ a.words[1] < b.words[1]
    \/ a.words[1] = b.words[1] /\ Last(a.words) > Last(b.words)

\* mutant: sort() without reverse=True
InsertForward(sorted, x) ==
    LET greater == {k \in 1..Len(sorted) : SubspanLt(x, sorted[k])}
        at == IF greater = {} THEN Len(sorted) + 1 ELSE MinOf(greater)
    IN  SubSeq(sorted, 1, at - 1) \o <<x>> \o SubSeq(sorted, at, Len(sorted))

\* mutant: the list is not sorted at all
InsertUnsorted(sorted, x) == sorted \o <<x>>

\* list.sort(reverse=True): descending, equal elements keep their order
RECURSIVE SortReverse(_)
InsertReverse(sorted, x) ==
    LET smaller == {k \in 1..Len(sorted) : SubspanLt(sorted[k], x)}
        at == IF smaller = {} THEN Len(sorted) + 1 ELSE MinOf(smaller)
    IN  SubSeq(sorted, 1, at - 1) \o <<x>> \o SubSeq(sorted, at, Len(sorted))

SortReverse(s) ==
    IF s = <<>> THEN <<>> ELSE InsertReverse(SortReverse(Front(s)), Last(s))

\* ------------------------------------------------------------------ tokens
NoSub == [mention |-> 0, words |-> <<>>, subspan_id |-> 0]

Plain(type) ==
    [type |-> type, node |-> 0, is_head |-> FALSE, is_empty |-> FALSE, sub |-> NoSub,
     eid |-> 0, mid |-> <<0, 0>>, singleton |-> FALSE, crossing |-> FALSE, head |-> 0]

\* mutant: the crossing mark is dropped
StartSubspanUnmarked(subspan, crossing) ==
    LET m == subspan.mention
        e == EntityOf(m)
    IN  [Plain("open") EXCEPT
            !.sub = subspan,
            !.eid = e,
            !.mid = mention_ids[m],
            !.head = ment[m].head,
            !.is_empty = \A w \in Range(subspan.words) : w \in emptyNodes,
            !.singleton = (Len(entities[e]) = 1)]

\* mutant: a mention of one word is taken for a singleton
StartSubspanOneWord(subspan, crossing) ==
    LET m == subspan.mention
        e == EntityOf(m)
    IN  [Plain("open") EXCEPT
            !.sub = subspan,
            !.eid = e,
            !.mid = mention_ids[m],
            !.head = ment[m].head,
            !.is_empty = \A w \in Range(subspan.words) : w \in emptyNodes,
            !.singleton = (Cardinality(ment[m].words) = 1),
            !.crossing = crossing]

\* mutant: the first class is the mention's position in its entity, not the eid
StartSubspanIdx(subspan, crossing) ==
    LET m == subspan.mention
        e == EntityOf(m)
    IN  [Plain("open") EXCEPT
            !.sub = subspan,
            !.eid = mention_ids[m][2],
            !.mid = mention_ids[m],
            !.head = ment[m].head,
            !.is_empty = \A w \in Range(subspan.words) : w \in emptyNodes,
            !.singleton = (Len(entities[e]) = 1),
            !.crossing = crossing]

\* _start_subspan: the classes and the title of the <span>
StartSubspan(subspan, crossing) ==
    LET m == subspan.mention
        e == EntityOf(m)
    IN  [Plain("open") EXCEPT
            !.sub = subspan,
            !.eid = e,
            !.mid = mention_ids[m],
            !.head = ment[m].head,
            !.is_empty = \A w \in Range(subspan.words) : w \in emptyNodes,
            !.singleton = (Len(entities[e]) = 1),
            !.crossing = crossing]

\* _is_head
IsHead(node) == \E m \in CorefMentions(node) : ment[m].head = node

VisitToken(node) ==
    [Plain("visit") EXCEPT
        !.node = node, !.is_head = IsHead(node), !.is_empty = (node \in emptyNodes)]

Emit(toks) == out' = [out EXCEPT ![t] = @ \o toks]

Node == trees[t][i]

\* ------------------------------------------------------------------ actions
\* a document of up to maxMentions mentions; either no node is decorated, or node 2 is
\* empty, node 1 has no_space_after and the heads are the last words
InitDocument(tree1, maxMentions) ==
    /\ trees = <<tree1, Tree2>>
    /\ \E decorated \in BOOLEAN, k \in 0..maxMentions :
        /\ emptyNodes = IF decorated THEN {2} ELSE {}
        /\ noSpace = IF decorated THEN {1} ELSE {}
        /\ ment \in [1..k -> MentionChoices(decorated)]
        /\ entities \in Compositions(1, k)

\* before the first call of process_document
InitWalk ==
    /\ pc = "idle"
    /\ pass = 1
    /\ mention_ids = <<>>
    /\ t = 0
    /\ i = 0
    /\ subspans = <<>>
    /\ opened = <<>>
    /\ out = <<<<>>, <<>>>>
    /\ prev = <<<<>>, <<>>>>
    /\ edited = FALSE

\* Root.__init__, lines 15-33: no node yet, the root has ord 0
NoCall == [op |-> "none", policy |-> "none", result |-> "-", raised |-> "none", trace |-> <<>>]

InitRoot ==
    /\ ord = [n \in 0..NumRootNodes |-> 0]
    /\ attached = {}
    /\ descendants = <<>>
    /\ before = <<>>
    /\ calls = 0
    /\ text = "None"
    /\ comment = <<>>
    /\ zone = "None"
    /\ bundle = "None"
    /\ last = NoCall

Init == InitDocument(Tree1, MaxMentions) /\ InitWalk /\ InitRoot

\* the documents process_document is called on twice
InitTwice == InitDocument(Tree1, MaxMentionsTwice) /\ InitWalk /\ InitRoot

\* process_document, lines 13-33: the display id of every mention
ProcessDocument ==
    /\ pc = "idle"
    /\ mention_ids' = [m \in DocMentions |->
            LET e == EntityOf(m)
            IN  <<e, CHOOSE idx \in 1..Len(entities[e]) : entities[e][idx] = m>>]
    /\ t' = 1
    /\ out' = [k \in 1..Len(trees) |-> <<>>]
    /\ pc' = "tree"
    /\ UNCHANGED <<rootVars, docVars, entities, pass, i, subspans, opened, prev, edited>>

\* process_tree, lines 65-78: collect the mentions, derive and sort the subspans
StartTree ==
    /\ pc = "tree"
    /\ LET mentions == TreeMentions(t)
       IN  \E order \in Enumerations(mentions) :
              subspans' = SortReverse(Flatten([k \in 1..Len(order) |-> Subspans(order[k])]))
    /\ opened' = <<>>
    /\ Emit(<<Plain("p")>>)
    /\ i' = 1
    /\ pc' = IF trees[t] = <<>> THEN "endtree" ELSE "open"
    /\ UNCHANGED <<rootVars, docVars, entities, pass, mention_ids, t, prev, edited>>

\* mutant: `if` for `while`, at most one subspan is opened at a node
StartingOnce(subs, node) ==
    IF subs # <<>> /\ Last(subs).words[1] = node THEN <<Last(subs)>> ELSE <<>>

\* lines 80-83: the subspans at the end of the list that start at this node
RECURSIVE Starting(_, _)
Starting(subs, node) ==
    IF subs # <<>> /\ Last(subs).words[1] = node
    THEN <<Last(subs)>> \o Starting(Front(subs), node)
    ELSE <<>>

OpenSubspans ==
    /\ pc = "open"
    /\ LET starting == Starting(subspans, Node)
       IN  /\ subspans' = SubSeq(subspans, 1, Len(subspans) - Len(starting))
           /\ opened' = opened \o starting
           /\ Emit([k \in 1..Len(starting) |-> StartSubspan(starting[k], FALSE)])
    /\ pc' = "visit"
    /\ UNCHANGED <<rootVars, docVars, entities, pass, mention_ids, t, i, prev, edited>>

\* lines 85-94
VisitNode ==
    /\ pc = "visit"
    /\ Emit(<<VisitToken(Node)>>)
    /\ pc' = "close"
    /\ UNCHANGED <<rootVars, docVars, entities, pass, mention_ids, t, i, subspans, opened, prev, edited>>

\* lines 96-98: what is left of the stack after popping the entries ending at this node
RECURSIVE PopEnding(_, _)
PopEnding(stack, node) ==
    IF stack # <<>> /\ Last(Last(stack).words) = node
    THEN PopEnding(Front(stack), node)
    ELSE stack

CloseEnding ==
    /\ pc = "close"
    /\ LET rest == PopEnding(opened, Node)
       IN  /\ opened' = rest
           /\ Emit([k \in 1..(Len(opened) - Len(rest)) |-> Plain("close")])
    /\ pc' = "cross"
    /\ UNCHANGED <<rootVars, docVars, entities, pass, mention_ids, t, i, subspans, prev, edited>>

\* lines 109-116: one pass over the stack, bottom to top; `subspan` is the loop variable
RECURSIVE Scan(_, _, _, _)
Scan(stack, node, k, acc) ==
    IF k > Len(stack) THEN acc
    ELSE LET subspan == stack[k]
             next == IF Last(subspan.words) = node
                         THEN [acc EXCEPT !.found_crossing = TRUE, !.subspan = subspan]
                     ELSE IF acc.found_crossing
                         THEN [acc EXCEPT !.brokens = @ \o <<subspan>>, !.subspan = subspan]
                     ELSE [acc EXCEPT !.new_opened = @ \o <<subspan>>, !.subspan = subspan]
         IN  Scan(stack, node, k + 1, next)

\* line 121: what is pushed for the k-th broken subspan
Reopened(brokens, subspan, k) == subspan

\* mutant: lines 119-121 push nothing, the broken subspans are printed but not kept
CrossingDropsBroken(stack, node) ==
    LET scan == Scan(stack, node, 1,
                     [new_opened |-> <<>>, brokens |-> <<>>, found_crossing |-> FALSE,
                      subspan |-> NoSub])
    IN  [endings |-> SelectSeq(stack, LAMBDA x : Last(x.words) = node),
         brokens |-> scan.brokens,
         opened |-> scan.new_opened]

\* mutant: line 117 forgotten, the stack keeps the entries that ended
CrossingKeepsEnded(stack, node) ==
    LET scan == Scan(stack, node, 1,
                     [new_opened |-> <<>>, brokens |-> <<>>, found_crossing |-> FALSE,
                      subspan |-> NoSub])
    IN  [endings |-> SelectSeq(stack, LAMBDA x : Last(x.words) = node),
         brokens |-> scan.brokens,
         opened |-> stack
                    \o [k \in 1..Len(scan.brokens) |-> Reopened(scan.brokens, scan.subspan, k)]]

\* lines 107-121: the entries ending at the node, the broken entries and the new stack
Crossing(stack, node) ==
    LET scan == Scan(stack, node, 1,
                     [new_opened |-> <<>>, brokens |-> <<>>, found_crossing |-> FALSE,
                      subspan |-> NoSub])
    IN  [endings |-> SelectSeq(stack, LAMBDA x : Last(x.words) = node),
         brokens |-> scan.brokens,
         opened |-> scan.new_opened
                    \o [k \in 1..Len(scan.brokens) |-> Reopened(scan.brokens, scan.subspan, k)]]

\* mutant: only the entries that end at the node are closed
HandleCrossingClosesEndings ==
    /\ pc = "cross"
    /\ LET c == Crossing(opened, Node)
           space == IF Node \notin noSpace THEN <<Plain("space")>> ELSE <<>>
       IN  IF c.endings # <<>>
           THEN /\ opened' = c.opened
                /\ Emit([k \in 1..Len(c.endings) |-> Plain("close")]
                        \o [k \in 1..Len(c.brokens) |-> StartSubspan(c.brokens[k], TRUE)]
                        \o space)
           ELSE /\ opened' = opened
                /\ Emit(space)
    /\ IF i < Len(trees[t])
       THEN i' = i + 1 /\ pc' = "open"
       ELSE i' = i /\ pc' = "endtree"
    /\ UNCHANGED <<rootVars, docVars, entities, pass, mention_ids, t, subspans, prev, edited>>

\* lines 107-124
HandleCrossing ==
    /\ pc = "cross"
    /\ LET c == Crossing(opened, Node)
           space == IF Node \notin noSpace THEN <<Plain("space")>> ELSE <<>>
       IN  IF c.endings # <<>>
           THEN /\ opened' = c.opened
                /\ Emit([k \in 1..(Len(c.endings) + Len(c.brokens)) |-> Plain("close")]
                        \o [k \in 1..Len(c.brokens) |-> StartSubspan(c.brokens[k], TRUE)]
                        \o space)
           ELSE /\ opened' = opened
                /\ Emit(space)
    /\ IF i < Len(trees[t])
       THEN i' = i + 1 /\ pc' = "open"
       ELSE i' = i /\ pc' = "endtree"
    /\ UNCHANGED <<rootVars, docVars, entities, pass, mention_ids, t, subspans, prev, edited>>

\* mutant: a tree whose stack is not empty at the end raises an error
EndTreeAsserting ==
    /\ pc = "endtree"
    /\ IF opened # <<>>
       THEN /\ pc' = "error"
            /\ UNCHANGED <<t, out>>
       ELSE /\ Emit(<<Plain("endp")>>)
            /\ IF t < Len(trees)
               THEN t' = t + 1 /\ pc' = "tree"
               ELSE t' = t /\ pc' = "done"
    /\ UNCHANGED <<rootVars, docVars, entities, pass, mention_ids, i, subspans, opened, prev, edited>>

\* line 126, and lines 35-47: the next tree, or the end of the document
EndTree ==
    /\ pc = "endtree"
    /\ Emit(<<Plain("endp")>>)
    /\ IF t < Len(trees)
       THEN t' = t + 1 /\ pc' = "tree"
       ELSE t' = t /\ pc' = "done"
    /\ UNCHANGED <<rootVars, docVars, entities, pass, mention_ids, i, subspans, opened, prev, edited>>

\* process_document is called a second time on the same document
Rerun ==
    /\ pc = "done"
    /\ pass = 1
    /\ prev' = out
    /\ pass' = 2
    /\ pc' = "idle"
    /\ UNCHANGED <<rootVars, docVars, entities, mention_ids, t, i, subspans, opened, out, edited>>

Next ==
    \/ ProcessDocument
    \/ StartTree
    \/ OpenSubspans
    \/ VisitNode
    \/ CloseEnding
    \/ HandleCrossing
    \/ EndTree

\* one call of process_document on every document of the bounds
Spec == Init /\ [][Next]_vars

\* between the two calls a mention lying in another tree than the first is removed
\* from its entity (the entity keeps at least one mention)
RemoveOtherMention ==
    /\ pc = "idle"
    /\ pass = 2
    /\ \E e \in 1..Len(entities) : \E k \in 1..Len(entities[e]) :
        /\ Len(entities[e]) >= 2
        /\ ment[entities[e][k]].words \cap Range(trees[1]) = {}
        /\ entities' = [entities EXCEPT ![e] =
                            SubSeq(@, 1, k - 1) \o SubSeq(@, k + 1, Len(@))]
    /\ edited' = TRUE
    /\ UNCHANGED <<rootVars, docVars, pc, pass, mention_ids, t, i, subspans, opened, out, prev>>

NextTwice ==
    \/ Next
    \/ Rerun

\* two calls of process_document on the same document
SpecTwice == InitTwice /\ [][NextTwice]_vars

NextDocs ==
    \/ NextTwice
    \/ RemoveOtherMention

\* two calls of process_document on two documents that agree on the first tree
SpecDocs == InitTwice /\ [][NextDocs]_vars

\* the last node of the first tree is missing from its node sequence, or not
InitDangling == InitDocument(Front(Tree1), MaxMentions) /\ InitWalk /\ InitRoot

\* one call of process_document, mentions may reach beyond the nodes of the first tree
SpecDangling == (Init \/ InitDangling) /\ [][Next]_vars

\* -------------------------------------------------------------------- Root
\* mutant: sorted(..., reverse=True)
InsertByOrdDescending(sorted, x) ==
    LET smaller == {k \in 1..Len(sorted) : ord[sorted[k]] < ord[x]}
        at == IF smaller = {} THEN Len(sorted) + 1 ELSE MinOf(smaller)
    IN  SubSeq(sorted, 1, at - 1) \o <<x>> \o SubSeq(sorted, at, Len(sorted))

\* line 148, sorted(..., key=lambda node: node.ord): ascending, equal ords keep their order
RECURSIVE SortByOrd(_)
InsertByOrd(sorted, x) ==
    LET greater == {k \in 1..Len(sorted) : ord[sorted[k]] > ord[x]}
        at == IF greater = {} THEN Len(sorted) + 1 ELSE MinOf(greater)
    IN  SubSeq(sorted, 1, at - 1) \o <<x>> \o SubSeq(sorted, at, Len(sorted))

\* mutant: the nodes are numbered in the order unordered_descendants() yields them
SortByOrdForgotten(s) == s

SortByOrd(s) == IF s = <<>> THEN <<>> ELSE InsertByOrd(SortByOrd(Front(s)), Last(s))

\* mutant: enumerate(...) without the start value 1
RenumberFromZero(sorted) ==
    [n \in 0..NumRootNodes |->
        IF n \in Range(sorted) THEN (CHOOSE k \in 1..Len(sorted) : sorted[k] = n) - 1 ELSE ord[n]]

\* lines 149-150: node.ord = new_ord for (new_ord, node) in enumerate(..., 1)
Renumber(sorted) ==
    [n \in 0..NumRootNodes |->
        IF n \in Range(sorted) THEN CHOOSE k \in 1..Len(sorted) : sorted[k] = n ELSE ord[n]]

\* Root._update_ordering, lines 142-150
UpdateOrdering ==
    /\ \E order \in Enumerations(attached) :
        LET sorted == SortByOrd(order)
        IN  /\ descendants' = sorted
            /\ ord' = Renumber(sorted)
    /\ before' = ord
    /\ calls' = IF calls < 2 THEN calls + 1 ELSE 2
    /\ UNCHANGED <<walkVars, sentinelVars, attached>>

\* a node is put below the root, with any ord
AttachNode ==
    /\ \E n \in (1..NumRootNodes) \ attached, v \in 0..MaxOrd :
        /\ attached' = attached \cup {n}
        /\ ord' = [ord EXCEPT ![n] = v]
    /\ before' = <<>>
    /\ calls' = 0
    /\ UNCHANGED <<walkVars, sentinelVars, descendants>>

\* a node is taken out of the tree
DetachNode ==
    /\ \E n \in attached : attached' = attached \ {n}
    /\ before' = <<>>
    /\ calls' = 0
    /\ UNCHANGED <<walkVars, sentinelVars, ord, descendants>>

\* node.ord = v on a node that is not the root
SetOrd ==
    /\ \E n \in attached, v \in 0..MaxOrd : ord' = [ord EXCEPT ![n] = v]
    /\ before' = <<>>
    /\ calls' = 0
    /\ UNCHANGED <<walkVars, sentinelVars, attached, descendants>>

\* no document is being written
InitNoDocument ==
    /\ trees = <<>>
    /\ emptyNodes = {}
    /\ noSpace = {}
    /\ ment = <<>>
    /\ entities = <<>>

NextRoot ==
    \/ UpdateOrdering
    \/ AttachNode
    \/ DetachNode
    \/ SetOrd

InitOrdering == InitNoDocument /\ InitWalk /\ InitRoot

\* the nodes of one tree are created, removed and reordered
SpecRoot == InitOrdering /\ [][NextRoot]_vars

\* ------------------------------------------------------- the technical root
\* the calls add_comment may make before the model stops adding
MaxComments == 2

Policies == {"detokenize", "empty", "warn_detokenize", "warn_empty", "fatal"}

Texts == {"None", "", "stored"}

Zones == {"None", "en"}

Bundles == {"None", "s1"}

\* if_missing.startswith('warn')
StartsWithWarn(policy) == policy \in {"warn_detokenize", "warn_empty"}

\* if_missing.endswith('detokenize')
EndsWithDetokenize(policy) == policy \in {"detokenize", "warn_detokenize"}

Call(op, policy, result, raised, trace) ==
    [op |-> op, policy |-> policy, result |-> result, raised |-> raised, trace |-> trace]

\* root.address(): self._bundle.bundle_id fails on a root outside any bundle
AddressRaises == bundle = "None"

\* root.compute_text(): the detokenizer
ComputeText == "computed"

SetParentSilent ==
    /\ last' = Call("set_parent", "none", "-", "none", <<>>)
    /\ UNCHANGED <<walkVars, orderVars, text, comment, zone, bundle>>

\* root.parent = value
SetParent ==
    /\ last' = Call("set_parent", "none", "-", "AttributeError", <<>>)
    /\ UNCHANGED <<walkVars, orderVars, text, comment, zone, bundle>>

\* value = root.parent
GetParent ==
    /\ last' = Call("get_parent", "none", "None", "none", <<>>)
    /\ UNCHANGED <<walkVars, orderVars, text, comment, zone, bundle>>

ShiftSilent ==
    /\ last' = Call("shift", "none", "None", "none", <<>>)
    /\ UNCHANGED <<walkVars, orderVars, text, comment, zone, bundle>>

\* root.shift(reference_node, ...)
Shift ==
    /\ last' = Call("shift", "none", "-", "Exception", <<>>)
    /\ UNCHANGED <<walkVars, orderVars, text, comment, zone, bundle>>

GetSentenceCaching(if_missing) ==
    /\ IF text # "None"
       THEN last' = Call("get_sentence", if_missing, text, "none", <<>>) /\ text' = text
       ELSE IF if_missing = "fatal"
       THEN /\ last' = Call("get_sentence", if_missing, "-",
                    IF AddressRaises THEN "AttributeError" ELSE "RuntimeError", <<>>)
            /\ text' = text
       ELSE IF StartsWithWarn(if_missing) /\ AddressRaises
       THEN last' = Call("get_sentence", if_missing, "-", "AttributeError", <<>>) /\ text' = text
       ELSE LET warned == IF StartsWithWarn(if_missing) THEN <<"warning">> ELSE <<>>
            IN  IF EndsWithDetokenize(if_missing)
                THEN /\ last' = Call("get_sentence", if_missing, ComputeText, "none",
                                     warned \o <<"compute_text">>)
                     /\ text' = ComputeText
                ELSE last' = Call("get_sentence", if_missing, "", "none", warned) /\ text' = text
    /\ UNCHANGED <<walkVars, orderVars, comment, zone, bundle>>

\* root.get_sentence(if_missing)
GetSentence(if_missing) ==
    /\ IF text # "None"
       THEN last' = Call("get_sentence", if_missing, text, "none", <<>>)
       ELSE IF if_missing = "fatal"
       THEN \* the message is formatted with self.address() before the raise
            last' = Call("get_sentence", if_missing, "-",
                         IF AddressRaises THEN "AttributeError" ELSE "RuntimeError", <<>>)
       ELSE IF StartsWithWarn(if_missing) /\ AddressRaises
       THEN \* the argument self.address() is evaluated before logging.warning
            last' = Call("get_sentence", if_missing, "-", "AttributeError", <<>>)
       ELSE LET warned == IF StartsWithWarn(if_missing) THEN <<"warning">> ELSE <<>>
            IN  IF EndsWithDetokenize(if_missing)
                THEN last' = Call("get_sentence", if_missing, ComputeText, "none",
                                  warned \o <<"compute_text">>)
                ELSE last' = Call("get_sentence", if_missing, "", "none", warned)
    /\ UNCHANGED <<walkVars, orderVars, text, comment, zone, bundle>>

\* root.text = value
SetText ==
    \E value \in Texts :
        /\ text' = value
        /\ last' = Call("set_text", "none", "-", "none", <<>>)
        /\ UNCHANGED <<walkVars, orderVars, comment, zone, bundle>>

\* root.add_comment(string)
AddComment ==
    \E string \in {"c"} :
        /\ Len(comment) < MaxComments
        /\ comment' = IF comment = <<>> THEN <<string>> ELSE comment \o <<string>>
        /\ last' = Call("add_comment", "none", "None", "none", <<>>)
        /\ UNCHANGED <<walkVars, orderVars, text, zone, bundle>>

\* root.zone = value; a bundle checks the zone against its other trees
SetZone ==
    \E value \in Zones, accepted \in BOOLEAN :
        /\ bundle = "None" => accepted
        /\ zone' = IF accepted THEN value ELSE zone
        /\ last' = Call("set_zone", "none", "-", IF accepted THEN "none" ELSE "Exception", <<>>)
        /\ UNCHANGED <<walkVars, orderVars, text, comment, bundle>>

\* root.bundle = value
SetBundle ==
    \E value \in Bundles :
        /\ bundle' = value
        /\ last' = Call("set_bundle", "none", "-", "none", <<>>)
        /\ UNCHANGED <<walkVars, orderVars, text, comment, zone>>

\* Root(zone=..., text=...), then create_child for each node of the tree
InitSentinel ==
    /\ InitNoDocument
    /\ InitWalk
    /\ \E k \in 0..NumRootNodes :
        /\ attached = 1..k
        /\ ord = [n \in 0..NumRootNodes |-> IF n <= k THEN n ELSE 0]
        /\ descendants = Interval(1, k)
    /\ before = <<>>
    /\ calls = 0
    /\ text \in Texts
    /\ zone \in Zones
    /\ comment = <<>>
    /\ bundle = "None"
    /\ last = NoCall

NextSentinel ==
    \/ SetParent
    \/ GetParent
    \/ Shift
    \/ \E if_missing \in Policies : GetSentence(if_missing)
    \/ SetText
    \/ AddComment
    \/ SetZone
    \/ SetBundle

\* the calls on a technical root: parent, shift, get_sentence and the attributes
SpecSentinel == InitSentinel /\ [][NextSentinel]_vars

\* ------------------------------------------------- vocabulary of the claims
\* process_tree has processed the final node of tree tr and is about to return
TreeDone(tr) == pc = "endtree" /\ t = tr

TreeSubspans(tr) == UNION {Range(Subspans(m)) : m \in TreeMentions(tr)}

\* the open, visit and close events of a token sequence
Events(toks) == SelectSeq(toks, LAMBDA x : x.type \in {"open", "visit", "close"})

CountType(E, a, b, type) == Cardinality({k \in a..b : E[k].type = type})

\* the close that matches the open at p (brackets), 0 when there is none
MatchClose(E, p) ==
    LET C == {c \in (p + 1)..Len(E) :
                /\ E[c].type = "close"
                /\ CountType(E, p + 1, c - 1, "open") = CountType(E, p + 1, c - 1, "close")}
    IN  IF C = {} THEN 0 ELSE MinOf(C)

\* the open that the close at c matches, 0 when there is none
MatchOpen(E, c) ==
    LET P == {p \in 1..(c - 1) : E[p].type = "open" /\ MatchClose(E, p) = c}
    IN  IF P = {} THEN 0 ELSE MaxOf(P)

\* the first event after p that is no open, the last event before c that is no close
AfterOpens(E, p) ==
    LET Q == {q \in (p + 1)..Len(E) : E[q].type # "open"}
    IN  IF Q = {} THEN 0 ELSE MinOf(Q)

BeforeCloses(E, c) ==
    LET Q == {q \in 1..(c - 1) : E[q].type # "close"}
    IN  IF Q = {} THEN 0 ELSE MaxOf(Q)

\* an event reduced to its kind, its mention (a close: of the open it matches), its
\* node and its crossing mark
Brief(E) ==
    [k \in 1..Len(E) |->
        [type |-> E[k].type,
         mention |-> IF E[k].type = "close"
                        THEN (IF MatchOpen(E, k) = 0 THEN 0 ELSE E[MatchOpen(E, k)].sub.mention)
                        ELSE E[k].sub.mention,
         node |-> E[k].node,
         crossing |-> E[k].crossing]]

Op(m) == [type |-> "open", mention |-> m, node |-> 0, crossing |-> FALSE]

OpX(m) == [type |-> "open", mention |-> m, node |-> 0, crossing |-> TRUE]

Vi(n) == [type |-> "visit", mention |-> 0, node |-> n, crossing |-> FALSE]

Cl(m) == [type |-> "close", mention |-> m, node |-> 0, crossing |-> FALSE]

Nested(a, b) ==
    \/ Range(a.words) \cap Range(b.words) = {}
    \/ Range(a.words) \subseteq Range(b.words)
    \/ Range(b.words) \subseteq Range(a.words)

NoCross(tr) == \A a, b \in TreeSubspans(tr) : Nested(a, b)

InTree(tr) ==
    \A s \in TreeSubspans(tr) : s.words[1] \in Range(trees[tr]) /\ Last(s.words) \in Range(trees[tr])

\* no two subspans of the tree have the same first and the same last node
NoTies(tr) ==
    \A a, b \in TreeSubspans(tr) :
        a # b => a.words[1] # b.words[1] \/ Last(a.words) # Last(b.words)

OpensOf(E, s) == {p \in 1..Len(E) : E[p].type = "open" /\ E[p].sub = s}

\* ------------------------------------------------------------------ claims
\* the document of the two examples: mention 1 over a..b, mention 2 over c..d, 4 nodes
TwoMentions(a, b, c, d) ==
    /\ trees[1] = <<1, 2, 3, 4>>
    /\ Len(ment) = 2
    /\ ment[1].words = a..b
    /\ ment[2].words = c..d

\* C1: when no two subspans of a tree cross, every subspan is opened once, unmarked,
\* with only opens between its open and the visit of its first node; its matching
\* close follows the visit of its last node with only closes in between; the entries
\* ending at a node are all popped from the top of the stack (none is left buried);
\* and mention 1 over 1..4 with mention 2 over 2..3 gives
\* Open(1) Visit(1) Open(2) Visit(2) Visit(3) Close(2) Visit(4) Close(1).
C1_NoCrossingWalk ==
    /\ \A tr \in {t} :
        (TreeDone(tr) /\ NoCross(tr)) =>
            LET E == Events(out[tr])
            IN  /\ \A k \in 1..Len(E) : ~E[k].crossing
                /\ CountType(E, 1, Len(E), "open") = Cardinality(TreeSubspans(tr))
                /\ \A s \in TreeSubspans(tr) : \E p \in OpensOf(E, s) :
                    /\ OpensOf(E, s) = {p}
                    /\ AfterOpens(E, p) # 0
                    /\ E[AfterOpens(E, p)] = VisitToken(s.words[1])
                    /\ MatchClose(E, p) # 0
                    /\ BeforeCloses(E, MatchClose(E, p)) # 0
                    /\ E[BeforeCloses(E, MatchClose(E, p))] = VisitToken(Last(s.words))
    /\ (pc = "cross" /\ NoCross(t)) => \A k \in 1..Len(opened) : Last(opened[k].words) # Node
    /\ (TreeDone(1) /\ TwoMentions(1, 4, 2, 3)) =>
            Brief(Events(out[1])) = <<Op(1), Vi(1), Op(2), Vi(2), Vi(3), Cl(2), Vi(4), Cl(1)>>

C1_Witness ==
    /\ pc = "endtree"
    /\ t = 1
    /\ TwoMentions(1, 4, 2, 3)
    /\ Brief(Events(out[1])) = <<Op(1), Vi(1), Op(2), Vi(2), Vi(3), Cl(2), Vi(4), Cl(1)>>

\* C2 as stated: mention 1 over 1..3 and mention 2 over 2..4 give Open(1) Visit(1)
\* Open(2) Visit(2) Close(2) Close(1) Visit(3) Open(2, crossing) Visit(4) Close(2).
C2_Original ==
    (TreeDone(1) /\ TwoMentions(1, 3, 2, 4)) =>
        Brief(Events(out[1])) =
            <<Op(1), Vi(1), Op(2), Vi(2), Cl(2), Cl(1), Vi(3), OpX(2), Vi(4), Cl(2)>>

\* C2 amended: the two closes come after the visit of node 3, the last node of
\* mention 1: Open(1) Visit(1) Open(2) Visit(2) Visit(3) Close(2) Close(1)
\* Open(2, crossing) Visit(4) Close(2).
C2_TwoWayCrossing ==
    (TreeDone(1) /\ TwoMentions(1, 3, 2, 4)) =>
        Brief(Events(out[1])) =
            <<Op(1), Vi(1), Op(2), Vi(2), Vi(3), Cl(2), Cl(1), OpX(2), Vi(4), Cl(2)>>

C2_Witness ==
    /\ pc = "endtree"
    /\ t = 1
    /\ TwoMentions(1, 3, 2, 4)
    /\ Brief(Events(out[1]))[8] = OpX(2)

\* C3: when the first and the last node of every subspan belong to the tree's node
\* sequence, the stack of open subspans is empty once the final node is processed.
C3_NoDanglingOpens == (pc = "endtree" /\ InTree(t)) => opened = <<>>

C3_Witness ==
    /\ pc = "endtree"
    /\ t = 1
    /\ InTree(1)
    /\ Cardinality(TreeSubspans(1)) >= 3
    /\ \E k \in 1..Len(out[1]) : out[1][k].crossing
    /\ opened = <<>>

FirstOpens(E) == {p \in 1..Len(E) : E[p].type = "open" /\ ~E[p].crossing}

\* C5: every subspan of the tree is opened exactly once (crossing re-opens apart),
\* with only opens between its open and the visit of its first node, and none is left
\* in the list at the end; the opens come in the order (first node ascending, last node
\* descending); right after the opening step the subspans starting at the node are the
\* top of the stack, the one reaching furthest lowest.
C5_OpeningOrder ==
    /\ pc = "endtree" =>
        LET E == Events(out[t])
        IN  /\ subspans = <<>>
            /\ Cardinality(FirstOpens(E)) = Cardinality(TreeSubspans(t))
            /\ \A s \in TreeSubspans(t) : \E p \in FirstOpens(E) : E[p].sub = s
            /\ \A p \in FirstOpens(E) :
                /\ AfterOpens(E, p) # 0
                /\ E[AfterOpens(E, p)].type = "visit"
                /\ E[AfterOpens(E, p)].node = E[p].sub.words[1]
            /\ \A p, q \in FirstOpens(E) : p < q => ~SubspanLt(E[q].sub, E[p].sub)
    /\ pc = "visit" =>
        LET here == {k \in 1..Len(opened) : opened[k].words[1] = Node}
        IN  /\ here = (Len(opened) - Cardinality(here) + 1)..Len(opened)
            /\ \A j, k \in here : j < k => Last(opened[j].words) >= Last(opened[k].words)
            /\ \A k \in 1..Len(subspans) : subspans[k].words[1] # Node

C5_Witness ==
    /\ pc = "visit"
    /\ Len(opened) = 3
    /\ opened[1].words[1] # Node
    /\ opened[2].words[1] = Node
    /\ opened[3].words[1] = Node
    /\ Last(opened[2].words) > Last(opened[3].words)

\* the tokens without the mention display id and the singleton mark
Strip(toks) == [k \in 1..Len(toks) |-> [toks[k] EXCEPT !.mid = <<0, 0>>, !.singleton = FALSE]]

\* C6 as stated (for subspans that differ in first or last node): after mentions lying
\* in other trees were removed from the document, the second call prints for the first
\* tree exactly what the first call printed, display ids and singleton marks included.
C6_Original == (pc = "done" /\ pass = 2 /\ NoTies(1)) => out[1] = prev[1]

\* C6 amended: the same, apart from the display id and the singleton mark of the opens.
C6_TreeIndependence ==
    (pc = "done" /\ pass = 2 /\ NoTies(1)) => Strip(out[1]) = Strip(prev[1])

C6_Witness ==
    /\ pc = "done"
    /\ pass = 2
    /\ edited
    /\ NoTies(1)
    /\ out[1] # prev[1]
    /\ Strip(out[1]) = Strip(prev[1])

C8_SingletonMarking ==
    pc # "idle" =>
        \A tr \in 1..Len(out) : \A k \in 1..Len(out[tr]) :
            out[tr][k].type = "open" =>
                (out[tr][k].singleton <=>
                    Cardinality({m \in DocMentions :
                        EntityOf(m) = EntityOf(out[tr][k].sub.mention)}) = 1)

C8_Witness ==
    /\ pc = "endtree"
    /\ t = 1
    /\ \E k \in 1..Len(out[1]) : out[1][k].crossing /\ out[1][k].singleton
    /\ \E k \in 1..Len(out[1]) : out[1][k].sub.subspan_id = 2 /\ out[1][k].singleton
    /\ \E k \in 1..Len(out[1]) : out[1][k].type = "open" /\ ~out[1][k].singleton

\* C9: after _update_ordering the ords of the nodes below the root are exactly 1..N,
\* root._descendants lists exactly these nodes, the node at index i (from 0) having
\* ord i+1, and the root is not in the list and has ord 0.
C9_DenseOrdinals ==
    calls >= 1 =>
        /\ {ord[n] : n \in attached} = 1..Cardinality(attached)
        /\ Len(descendants) = Cardinality(attached)
        /\ Range(descendants) = attached
        /\ \A k \in 1..Len(descendants) : ord[descendants[k]] = k
        /\ 0 \notin Range(descendants)
        /\ ord[0] = 0

\* the ords before the call had a duplicate and a gap
C9_Witness ==
    /\ calls = 1
    /\ Cardinality(attached) = 3
    /\ Cardinality({before[n] : n \in attached}) = 2
    /\ {before[n] : n \in attached} \cap {0, 2} = {}

\* C10: a call of _update_ordering that follows another with no change in between
\* leaves every ord and root._descendants as they are.
C10_Idempotent ==
    [][(calls >= 1 /\ UpdateOrdering) => (ord' = ord /\ descendants' = descendants)]_vars

C10_Witness ==
    /\ calls = 2
    /\ Cardinality(attached) = 3
    /\ before = ord

\* C11: an assignment to root.parent, whatever the value, raises an error and changes
\* nothing of the tree, and a read of root.parent returns None.
C11_NoReparenting ==
    [][/\ last'.op = "set_parent" =>
            /\ last'.raised # "none"
            /\ UNCHANGED <<ord, attached, descendants, text, comment, zone, bundle>>
       /\ last'.op = "get_parent" => (last'.result = "None" /\ last'.raised = "none")]_vars

\* an assignment to the parent of a root with three nodes has failed
C11_Witness ==
    /\ last.op = "set_parent"
    /\ last.raised = "AttributeError"
    /\ Cardinality(attached) = 3

\* C12 as stated: a shift that follows an assignment to root.parent fails with the same
\* kind of error, and changes no ord and not root._descendants.
C12_Original ==
    [][(last.op = "set_parent" /\ last'.op = "shift") =>
            /\ last'.raised # "none"
            /\ last'.raised = last.raised
            /\ UNCHANGED <<ord, descendants>>]_vars

\* C12 amended: shift fails with a plain Exception, which is not the AttributeError of
\* the parent setter, and changes no ord and not root._descendants.
C12_ShiftFails ==
    [][last'.op = "shift" =>
            /\ last'.raised = "Exception"
            /\ last.op = "set_parent" => last'.raised # last.raised
            /\ UNCHANGED <<ord, descendants>>]_vars

\* a shift of a root with three nodes has failed
C12_Witness ==
    /\ last.op = "shift"
    /\ last.raised = "Exception"
    /\ Len(descendants) = 3

\* C13: get_sentence returns the stored text when there is one, with no warning, no
\* error and no detokenizer call; with no text it raises under fatal, returns '' under
\* empty and warn_empty, the detokenizer's result under detokenize and warn_detokenize,
\* and logs one warning, before the fallback, exactly under the two warn policies.
C13_TextPolicy ==
    last.op = "get_sentence" =>
        IF text # "None"
        THEN last.result = text /\ last.raised = "none" /\ last.trace = <<>>
        ELSE /\ last.policy = "fatal" => last.raised # "none"
             /\ last.policy \in {"empty", "warn_empty"} =>
                    (last.result = "" /\ last.raised = "none")
             /\ last.policy \in {"detokenize", "warn_detokenize"} =>
                    (last.result = ComputeText /\ last.raised = "none")
             /\ last.policy \in {"warn_detokenize", "warn_empty"} =>
                    (last.trace # <<>> /\ last.trace[1] = "warning")
             /\ Cardinality({k \in 1..Len(last.trace) : last.trace[k] = "warning"})
                    = IF last.policy \in {"warn_detokenize", "warn_empty"} THEN 1 ELSE 0

\* C14: get_sentence, whatever the policy and the outcome, leaves root.text,
\* root.comment, the zone, the bundle, root._descendants and every ord as they are.
C14_ReadOnly ==
    [][last'.op = "get_sentence" =>
            UNCHANGED <<text, comment, zone, bundle, descendants, attached, ord>>]_vars

\* the detokenizer has produced the sentence of a tree with a comment, and root.text
\* is still None
C14_Witness ==
    /\ last.op = "get_sentence"
    /\ last.result = ComputeText
    /\ text = "None"
    /\ comment # <<>>
    /\ Cardinality(attached) = 3

\* C18: two nodes below the root with a.ord < b.ord before _update_ordering have
\* a.ord < b.ord after it, and a stands before b in root._descendants.
C18_OrderPreserving ==
    calls >= 1 =>
        \A a, b \in attached :
            before[a] < before[b] =>
                /\ ord[a] < ord[b]
                /\ \E j, k \in 1..Len(descendants) :
                        j < k /\ descendants[j] = a /\ descendants[k] = b

\* three nodes with distinct ords that had a gap and ran against the node numbers
C18_Witness ==
    /\ calls = 1
    /\ attached = {1, 2, 3}
    /\ before[3] < before[2] /\ before[2] < before[1]
    /\ before[1] - before[3] > 2
    /\ ord[3] = 1 /\ ord[1] = 3

\* the walk of tree t is under way
Walking == pc \in {"open", "visit", "close", "cross", "endtree"}

\* the stack positions of the entries that end at the node being processed
EndingAt == {k \in 1..Len(opened) : Last(opened[k].words) = Node}

\* the entries from the deepest one ending at the node up to the top
ForceClosed == SubSeq(opened, MinOf(EndingAt), Len(opened))

\* those of them that go on after the node
Continuing == SelectSeq(ForceClosed, LAMBDA x : Last(x.words) # Node)

\* what the step prints
Printed == SubSeq(out'[t], Len(out[t]) + 1, Len(out'[t]))

\* C15: when, after the visit of a node and the closes of the top of the stack, an
\* entry ending at the node is still on the stack, the step prints exactly k closes,
\* k the number of entries from the deepest such entry up to the top, then one open
\* marked crossing for each of these entries that does not end at the node, bottom to
\* top, and nothing else before the next visit; and no other step prints an open
\* marked crossing.
C15_CrossingEvents ==
    [][/\ (pc = "cross" /\ EndingAt # {}) =>
            LET E == Events(Printed)
                k == Len(ForceClosed)
            IN  /\ Len(E) = k + Len(Continuing)
                /\ \A j \in 1..k : E[j].type = "close"
                /\ \A j \in 1..Len(Continuing) :
                        /\ E[k + j].type = "open"
                        /\ E[k + j].crossing
                        /\ E[k + j].sub = Continuing[j]
       /\ (Walking /\ ~(pc = "cross" /\ EndingAt # {})) =>
            \A j \in 1..Len(Printed) : ~Printed[j].crossing]_vars

\* two entries above the one that ended have been closed and re-opened, in their order
C15_Witness ==
    /\ pc = "open"
    /\ Len(opened) >= 2
    /\ \E p \in 1..(Len(out[t]) - 1) :
        /\ out[t][p].type = "open" /\ out[t][p].crossing
        /\ out[t][p + 1].type = "open" /\ out[t][p + 1].crossing
        /\ out[t][p].sub.mention # out[t][p + 1].sub.mention
        /\ p + 1 >= Len(out[t]) - 1

\* C16: after the handling of a crossing the stack holds the entries below the deepest
\* entry ending at the node, unchanged, followed by every force-closed subspan that
\* does not end at the node, each once and in their order.
C16_StackAfterCrossing ==
    [][(pc = "cross" /\ EndingAt # {}) =>
            opened' = SubSeq(opened, 1, MinOf(EndingAt) - 1) \o Continuing]_vars

\* the visit at position v of E lies inside an open span of mention m
Inside(E, v, m) ==
    \E p \in 1..(v - 1) :
        /\ E[p].type = "open"
        /\ E[p].sub.mention = m
        /\ MatchClose(E, p) = 0 \/ MatchClose(E, p) > v

\* C17: with closes matched to opens as brackets, the visit of a node lies inside an
\* open span of a mention exactly when the node is a word of the mention.
C17_SpanCoverage ==
    \A tr \in {t} :
        TreeDone(tr) =>
            LET E == Events(out[tr])
            IN  \A v \in 1..Len(E) :
                    E[v].type = "visit" =>
                        \A m \in DocMentions : Inside(E, v, m) <=> E[v].node \in ment[m].words

\* C19: after every step of the walk the opens printed for the tree minus the closes
\* printed equal the size of the stack, no close is printed when nothing is open, and
\* with an empty stack the two totals are equal.
C19_TagBalance ==
    Walking =>
        LET E == out[t]
        IN  /\ CountType(E, 1, Len(E), "open") - CountType(E, 1, Len(E), "close") = Len(opened)
            /\ \A k \in 1..Len(E) :
                    CountType(E, 1, k, "open") >= CountType(E, 1, k, "close")
            /\ opened = <<>> =>
                    CountType(E, 1, Len(E), "open") = CountType(E, 1, Len(E), "close")

\* a walk with a crossing has come to its end with every span closed
C19_Witness ==
    /\ pc = "endtree"
    /\ opened = <<>>
    /\ \E p \in 1..Len(out[t]) : out[t][p].type = "open" /\ out[t][p].crossing
    /\ CountType(out[t], 1, Len(out[t]), "close") >= 4

====
